---- MODULE Spec2Model ----
(***************************************************************************)
(* Model of src/graph.py: the citation-graph pipeline of the survey.       *)
(*                                                                         *)
(* A title is a sequence of character codes (ASCII), so that clean_title   *)
(* and Python's string ordering are computed, not assumed.  The SQLite     *)
(* database is the pair (Article, reference): Article[msid] is the title   *)
(* of the article with that msid, reference is the sequence of rows        *)
(* (article, reference) of the reference table.  The two SELECT statements *)
(* of the script are the operators NodeQuery and EdgeQuery.                *)
(*                                                                         *)
(* The three library calls are modelled by their results:                  *)
(*  - best_partition (python-louvain): any partition of the graph's nodes  *)
(*    into connected communities, numbered 0..k-1 in order of first        *)
(*    appearance; a graph without edges gets one community per node,       *)
(*    numbered by node position.  The choice among partitions is           *)
(*    nondeterministic (the optimiser is a randomised local search).       *)
(*  - betweenness_centrality (networkx): computed exactly, as the integer  *)
(*    CentralityScale * sum over ordered pairs (s,t) of sigma_st(v) /      *)
(*    sigma_st; the library divides this by a positive constant of the     *)
(*    graph, which does not change the order the script sorts by.          *)
(*  - kamada_kawai_layout (networkx): the keys of its result, in the       *)
(*    graph's node order; coordinates are not modelled.  On a graph        *)
(*    without nodes the call returns an empty mapping or raises,           *)
(*    depending on the library version: both outcomes are kept.            *)
(***************************************************************************)
EXTENDS Integers, Sequences, FiniteSets, TLC

\* Largest number of reference rows between articles of the table.
MaxRefs == 2

VARIABLES
    reference,           \* DB table reference: sequence of [article, reference] msid rows
    citation_blacklist,  \* keys of the --exclude file
    output,              \* args.output is not None
    citations,           \* dict: cleaned title -> citation key
    nodes,               \* graph: node titles in insertion order
    adj,                 \* graph: set of edges, each the set of its endpoints
    label,               \* dict: title -> citation key of its \cite command
    edges,               \* list of (t1, t2) pairs for the diagram
    parts,               \* dict: node -> community id
    communities,         \* dict: community id -> list of node records
    stats,               \* what the script printed: a record, or <<>> before
    colors,              \* dict: community id -> colour name
    values,              \* list of colour names, one per node
    pos,                 \* keys of the layout, in order
    border_node,         \* declarations held back for the end of the node block
    latex,               \* the diagram: sequence of declarations
    written,             \* the diagram was written to the output file
    pc,                  \* position of the script
    i                    \* index of the row / node the current loop is at

vars == <<reference, citation_blacklist, output, citations, nodes, adj, label,
          edges, parts, communities, stats, colors, values, pos, border_node,
          latex, written, pc, i>>

----------------------------------------------------------------------------
\* Sequences and Python orderings

Range(s) == {s[k] : k \in DOMAIN s}

Last(s) == s[Len(s)]

\* Python's < on str: lexicographic by code point, a proper prefix is smaller.
RECURSIVE StrLess(_, _)
StrLess(s, t) ==
    IF t = <<>> THEN FALSE
    ELSE IF s = <<>> THEN TRUE
    ELSE IF s[1] # t[1] THEN s[1] < t[1]
    ELSE StrLess(Tail(s), Tail(t))

\* The elements of a sequence without repetition, first occurrences kept (DISTINCT).
RECURSIVE Distinct(_)
Distinct(s) ==
    IF s = <<>> THEN <<>>
    ELSE LET front == Distinct(SubSeq(s, 1, Len(s) - 1))
         IN IF Last(s) \in Range(front) THEN front ELSE Append(front, Last(s))

----------------------------------------------------------------------------
\* clean_title

\* str.lower on ASCII
lower(title) == [k \in DOMAIN title |->
                    IF title[k] >= 65 /\ title[k] <= 90 THEN title[k] + 32 ELSE title[k]]

\* The class [^a-z^0-9]: every character but a-z, '^' and 0-9.
MatchesPattern(c) == ~((c >= 97 /\ c <= 122) \/ c = 94 \/ (c >= 48 /\ c <= 57))

\* re.sub(pattern, " ", res)
SubPattern(s) == [k \in DOMAIN s |-> IF MatchesPattern(s[k]) THEN 32 ELSE s[k]]

\* re.sub(" +", " ", res)
RECURSIVE SubSpaces(_)
SubSpaces(s) ==
    IF s = <<>> THEN <<>>
    ELSE IF Len(s) >= 2 /\ s[1] = 32 /\ s[2] = 32 THEN SubSpaces(Tail(s))
    ELSE <<s[1]>> \o SubSpaces(Tail(s))

\* str.isspace on an ASCII character
IsSpace(c) == c \in (9..13) \cup (28..32)

\* str.strip()
RECURSIVE LStrip(_)
LStrip(s) == IF s # <<>> /\ IsSpace(s[1]) THEN LStrip(Tail(s)) ELSE s

RECURSIVE RStrip(_)
RStrip(s) == IF s # <<>> /\ IsSpace(Last(s)) THEN RStrip(SubSeq(s, 1, Len(s) - 1)) ELSE s

Strip(s) == RStrip(LStrip(s))

clean_title(title) == Strip(SubSpaces(SubPattern(lower(title))))

----------------------------------------------------------------------------
\* The inputs: bibliography, aux file, database

\* The bibtex file: entries in file order.  Titles: "C-D", "b", "A", "e".
Bib == << [cite |-> "poe_cd_2012", title |-> <<67, 45, 68>>],
          [cite |-> "roe_b_2011", title |-> <<98>>],
          [cite |-> "doe_a_2010", title |-> <<65>>],
          [cite |-> "kim_e_2014", title |-> <<101>>] >>

\* The citation keys found in the aux file, in order (kim_e_2014 is not cited).
AuxKeys == << "poe_cd_2012", "roe_b_2011", "doe_a_2010", "poe_cd_2012" >>

\* The article table: the title of each msid.
\*   "c d", "b", "c d", "a", "C:  d", "B"
Article == << <<99, 32, 100>>, <<98>>, <<99, 32, 100>>, <<97>>,
              <<67, 58, 32, 32, 100>>, <<66>> >>

Msids == DOMAIN Article

Row(a, r) == [article |-> a, reference |-> r]

\* Rows in primary-key order
RowLess(x, y) ==
    \/ x.article < y.article
    \/ x.article = y.article /\ x.reference < y.reference

RECURSIVE SortRows(_)
SortRows(S) ==
    IF S = {} THEN <<>>
    ELSE LET m == CHOOSE x \in S : \A y \in S \ {x} : RowLess(x, y)
         IN <<m>> \o SortRows(S \ {m})

\* SELECT DISTINCT title FROM article JOIN reference
\*   ON article.msid = reference.article or article.msid = reference.reference
RECURSIVE JoinedTitles(_)
JoinedTitles(m) ==
    IF m = 0 THEN <<>>
    ELSE LET front == JoinedTitles(m - 1)
         IN IF \E k \in DOMAIN reference :
                   reference[k].article = m \/ reference[k].reference = m
            THEN Append(front, Article[m])
            ELSE front

NodeQuery == Distinct(JoinedTitles(Len(Article)))

\* SELECT DISTINCT a1.title as t1, a2.title as t2 FROM reference
\*   JOIN article AS a1 ON reference = a1.msid JOIN article AS a2 ON article = a2.msid
RECURSIVE JoinedPairs(_)
JoinedPairs(k) ==
    IF k = 0 THEN <<>>
    ELSE LET front == JoinedPairs(k - 1)
             row == reference[k]
         IN IF row.reference \in DOMAIN Article /\ row.article \in DOMAIN Article
            THEN Append(front, [t1 |-> Article[row.reference], t2 |-> Article[row.article]])
            ELSE front

\* Fault: the query without DISTINCT.
EdgeQueryAll == JoinedPairs(Len(reference))

EdgeQuery == Distinct(JoinedPairs(Len(reference)))

----------------------------------------------------------------------------
\* Python dict and list helpers

\* d[k] = v on a dict
Put(d, k, v) == [x \in DOMAIN d \cup {k} |-> IF x = k THEN v ELSE d[x]]

\* {clean_title(entry.fields['title']): cite for cite, entry in bib_data.entries.items()
\*  if cite in citation_list}, over the first k entries: a later entry replaces an
\* earlier one with the same cleaned title.
RECURSIVE CitationsOf(_, _)
CitationsOf(k, citation_list) ==
    IF k = 0 THEN <<>>
    ELSE LET d == CitationsOf(k - 1, citation_list)
         IN IF Bib[k].cite \in Range(citation_list)
            THEN Put(d, clean_title(Bib[k].title), Bib[k].cite)
            ELSE d

\* sorted() of a set of titles
RECURSIVE SortedTitles(_)
SortedTitles(S) ==
    IF S = {} THEN <<>>
    ELSE LET m == CHOOSE x \in S : \A y \in S \ {x} : StrLess(x, y)
         IN <<m>> \o SortedTitles(S \ {m})

\* Fault: the sort of the community is left out.
SortByCentralityOmitted(s) == s

\* list.sort(key=lambda k: k['centrality']): stable, ascending
RECURSIVE SortByCentrality(_)
SortByCentrality(s) ==
    IF s = <<>> THEN <<>>
    ELSE LET front == SortByCentrality(SubSeq(s, 1, Len(s) - 1))
             x == Last(s)
             n == Cardinality({k \in DOMAIN front : front[k].centrality <= x.centrality})
         IN SubSeq(front, 1, n) \o <<x>> \o SubSeq(front, n + 1, Len(front))

\* sum of the values of a dict
RECURSIVE Sum(_)
Sum(f) ==
    IF DOMAIN f = {} THEN 0
    ELSE LET x == CHOOSE y \in DOMAIN f : TRUE
         IN f[x] + Sum([y \in DOMAIN f \ {x} |-> f[y]])

----------------------------------------------------------------------------
\* networkx.Graph

\* graph.add_node(n): the node list after the call
add_node(ns, n) == IF n \in Range(ns) THEN ns ELSE Append(ns, n)

\* graph.add_edge(u, v): the node list after the call (missing endpoints are created)
add_edge_nodes(ns, u, v) == add_node(add_node(ns, u), v)

\* Fault: a graph that ignores an edge from a node to itself.
add_edge_adj_no_loop(es, u, v) == IF u = v THEN es ELSE es \cup {{u, v}}

\* graph.add_edge(u, v): the edge set after the call (undirected, u = v is a self-loop)
add_edge_adj(es, u, v) == es \cup {{u, v}}

\* Neighbours of v other than v itself
Nbr(v) == {u \in Range(nodes) \ {v} : {u, v} \in adj}

----------------------------------------------------------------------------
\* community.best_partition

\* Edges between two distinct nodes
ProperEdges == {e \in adj : Cardinality(e) = 2}

\* The nodes joined to those of S by a path of edges of K
RECURSIVE Component(_, _)
Component(K, S) ==
    LET T == S \cup {u \in Range(nodes) : \E v \in S : {u, v} \in K}
    IN IF T = S THEN S ELSE Component(K, T)

\* First position of a node of n's community
FirstOf(K, n) ==
    LET C == Component(K, {n})
    IN CHOOSE k \in DOMAIN nodes :
          nodes[k] \in C /\ \A j \in DOMAIN nodes : nodes[j] \in C => k <= j

\* The partition whose communities are the components of (nodes, K), numbered
\* 0, 1, ... in order of first appearance
PartitionOf(K) ==
    [n \in Range(nodes) |->
        Cardinality({FirstOf(K, m) : m \in Range(nodes)} \cap (1..(FirstOf(K, n) - 1)))]

\* The results best_partition may return
best_partition == {PartitionOf(K) : K \in SUBSET ProperEdges}

----------------------------------------------------------------------------
\* networkx.betweenness_centrality

\* Scores are kept as integers: every count of shortest paths divides this.
CentralityScale == 3 * 4 * 5

\* Breadth-first levels from a frontier: node -> distance
RECURSIVE Levels(_, _, _)
Levels(front, seen, k) ==
    IF front = {} THEN <<>>
    ELSE LET next == UNION {Nbr(v) : v \in front} \ seen
         IN [n \in front |-> k] @@ Levels(next, seen \cup next, k + 1)

DistFrom(s) == Levels({s}, {s}, 0)

\* Number of shortest paths from s to t, D the distances from s
RECURSIVE Sigma(_, _, _)
Sigma(s, t, D) ==
    IF t = s THEN 1
    ELSE LET pred == {u \in Nbr(t) : u \in DOMAIN D /\ D[u] + 1 = D[t]}
         IN Sum([u \in pred |-> Sigma(s, u, D)])

\* Scaled share of the shortest s-t paths that pass through v
PairDependency(s, t, v) ==
    LET Ds == DistFrom(s)
        Dv == DistFrom(v)
    IN IF t \in DOMAIN Ds /\ v \in DOMAIN Ds /\ t \in DOMAIN Dv /\ Ds[v] + Dv[t] = Ds[t]
       THEN (CentralityScale * Sigma(s, v, Ds) * Sigma(v, t, Dv)) \div Sigma(s, t, Ds)
       ELSE 0

betweenness_centrality ==
    [v \in Range(nodes) |->
        LET others == Range(nodes) \ {v}
        IN Sum([s \in others |->
                  Sum([t \in others \ {s} |-> PairDependency(s, t, v)])])]

----------------------------------------------------------------------------
\* The diagram: one record per \tikzstyle, \node and \path line

\* \tikzstyle{<name>} of the preamble (c = -1) or of community c, filled with a colour
StyleDecl(c, name, fill) ==
    [decl |-> "tikzstyle", c |-> c, style |-> name, fill |-> fill,
     s |-> <<>>, d |-> <<>>, text |-> ""]

\* \node[c<c> vertex <suffix>] (<node>) at (x, y) {\LARGE<text>};
NodeDecl(c, suffix, node, text) ==
    [decl |-> "node", c |-> c, style |-> suffix, fill |-> "",
     s |-> node, d |-> <<>>, text |-> text]

\* \path[edge] (<s>) -- (<d>);
PathDecl(s, d) ==
    [decl |-> "path", c |-> -1, style |-> "edge", fill |-> "",
     s |-> s, d |-> d, text |-> ""]

\* "c%s vertex %s" % (id, "border") and "c%s vertex %s" % (id, ''), after "c<id> "
BorderSuffix == "vertex border"
PlainSuffix == "vertex "

\* The three styles of the preamble
Preamble == << StyleDecl(-1, "vertex", ""), StyleDecl(-1, "border", ""),
               StyleDecl(-1, "edge", "") >>

\* The two styles of each colour, in the order of colors.items()
RECURSIVE ColorStyles(_, _)
ColorStyles(cs, k) ==
    IF k \notin DOMAIN cs THEN <<>>
    ELSE << StyleDecl(k, "vertex", cs[k]), StyleDecl(k, "vertex border", cs[k]) >>
         \o ColorStyles(cs, k + 1)

----------------------------------------------------------------------------
\* Steps of the script

\* the sets of at most k elements of S
RECURSIVE SubsetsUpTo(_, _)
SubsetsUpTo(S, k) ==
    IF k = 0 THEN {{}}
    ELSE LET P == SubsetsUpTo(S, k - 1) IN P \cup {p \cup {x} : p \in P, x \in S}

\* if clean_title(article['title']) in citations
NodeAdmitted(title) == clean_title(title) \in DOMAIN citations

\* Fault: the edge test looks at one endpoint only.
EdgeAdmittedOneEnd(edge) == edge.t2 \in DOMAIN citations

\* Fault: the edge test is left out.
EdgeAdmittedAlways(edge) == TRUE

\* if edge['t1'] in citations and edge['t2'] in citations
EdgeAdmitted(edge) == edge.t1 \in DOMAIN citations /\ edge.t2 \in DOMAIN citations

\* [x for x in citation_key.findall(f.read()) if x not in citation_blacklist]
CitationList(blacklist) == SelectSeq(AuxKeys, LAMBDA x : x \notin blacklist)

\* Fault: communities[value] = [{'title': key}] in place of setdefault and append.
RECURSIVE GroupedOverwrite(_)
GroupedOverwrite(titles) ==
    IF titles = <<>> THEN <<>>
    ELSE LET g == GroupedOverwrite(SubSeq(titles, 1, Len(titles) - 1))
             key == Last(titles)
         IN Put(g, parts[key], <<[title |-> key]>>)

\* communities.setdefault(value, []).append({'title': key}) over a list of titles
RECURSIVE Grouped(_)
Grouped(titles) ==
    IF titles = <<>> THEN <<>>
    ELSE LET g == Grouped(SubSeq(titles, 1, Len(titles) - 1))
             key == Last(titles)
             value == parts[key]
             before == IF value \in DOMAIN g THEN g[value] ELSE <<>>
         IN Put(g, value, Append(before, [title |-> key]))

\* Fault: a palette with one colour per community and no more.
ColorsPerCommunity(n) ==
    [c \in 0..(n - 1) |->
        CASE c = 0 -> "cyan" [] c = 1 -> "red" [] c = 2 -> "green" [] c = 3 -> "violet"
          [] OTHER -> "black"]

\* Fault: range(4, len(communities) - 1).
ColorsOneShort(n) ==
    [c \in (0..3) \cup (4..(n - 2)) |->
        CASE c = 0 -> "cyan" [] c = 1 -> "red" [] c = 2 -> "green" [] c = 3 -> "violet"
          [] OTHER -> "black"]

\* colors = {0: 'cyan', 1: 'red', 2: 'green', 3: 'violet'}
\* for i in range(4, len(communities)): colors[i] = 'black'
Colors(n) ==
    [c \in (0..3) \cup (4..(n - 1)) |->
        CASE c = 0 -> "cyan" [] c = 1 -> "red" [] c = 2 -> "green" [] c = 3 -> "violet"
          [] OTHER -> "black"]

\* node['centrality'] = centrality[node['title']] for the members of a community,
\* then community.sort(key=lambda k: k['centrality'])
Ranked(community, centrality) ==
    SortByCentrality([k \in DOMAIN community |->
        [title |-> community[k].title, centrality |-> centrality[community[k].title]]])

\* communities[parts.get(node)][-1]['title'] == node
IsBorder(node) == Last(communities[parts[node]]).title = node

\* Fault: the border declarations are appended to latex where they occur.
RECURSIVE NodeLoopInPlace(_)
NodeLoopInPlace(k) ==
    IF k = 0 THEN [latex |-> <<>>, border_node |-> <<>>]
    ELSE LET r == NodeLoopInPlace(k - 1)
             node == pos[k]
             suffix == IF Last(communities[parts[node]]).title = node
                       THEN "vertex border" ELSE "vertex "
         IN [r EXCEPT !.latex = Append(@, NodeDecl(parts[node], suffix, node, label[node]))]

\* The loop over pos.items(): (latex additions, border_node) after the first k nodes
RECURSIVE NodeLoop(_)
NodeLoop(k) ==
    IF k = 0 THEN [latex |-> <<>>, border_node |-> <<>>]
    ELSE LET r == NodeLoop(k - 1)
             node == pos[k]
         IN IF IsBorder(node)
            THEN [r EXCEPT !.border_node =
                     Append(@, NodeDecl(parts[node], BorderSuffix, node, label[node]))]
            ELSE [r EXCEPT !.latex =
                     Append(@, NodeDecl(parts[node], PlainSuffix, node, label[node]))]

\* for s, d in edges: latex += "\\path[edge] (%s) -- (%s);\n" % (s, d)
EdgeLoop == [k \in DOMAIN edges |-> PathDecl(edges[k][1], edges[k][2])]

\* The reference tables: up to MaxRefs rows between articles of the table; or the
\* first e articles each citing a paper that is not in the table (msid 0), with at
\* most one row between articles of the table.
InternalRows == {Row(a, r) : a \in Msids, r \in Msids}

Databases ==
    {SortRows(R) : R \in SubsetsUpTo(InternalRows, MaxRefs)}
    \cup {SortRows(R \cup {Row(m, 0) : m \in 1..e}) :
             R \in {{}} \cup {{x} : x \in InternalRows}, e \in Msids}

AfterNodes == IF EdgeQuery = <<>> THEN "partition" ELSE "edges"

Init ==
    /\ reference \in Databases
    /\ citation_blacklist = {}
    /\ output = FALSE
    /\ citations = <<>>
    /\ nodes = <<>>
    /\ adj = {}
    /\ label = <<>>
    /\ edges = <<>>
    /\ parts = <<>>
    /\ communities = <<>>
    /\ stats = <<>>
    /\ colors = <<>>
    /\ values = <<>>
    /\ pos = <<>>
    /\ border_node = <<>>
    /\ latex = <<>>
    /\ written = FALSE
    /\ pc = "start"
    /\ i = 1

\* lines 61-78: the exclusion file (no key, or one of the cited keys), the aux file
\* and the bibliography
ReadCitations ==
    /\ pc = "start"
    /\ \E bl \in {{}} \cup {{key} : key \in Range(AuxKeys)} :
          /\ citation_blacklist' = bl
          /\ citations' = CitationsOf(Len(Bib), CitationList(bl))
    /\ pc' = IF NodeQuery = <<>> THEN AfterNodes ELSE "nodes"
    /\ UNCHANGED <<reference, output, nodes, adj, label, edges, parts, communities,
                   stats, colors, values, pos, border_node, latex, written, i>>

\* lines 91-98: one row of the node query
AddNodeRow ==
    /\ pc = "nodes"
    /\ LET title == NodeQuery[i]
       IN IF NodeAdmitted(title)
          THEN /\ nodes' = add_node(nodes, title)
               /\ label' = Put(label, title, citations[clean_title(title)])
          ELSE UNCHANGED <<nodes, label>>
    /\ IF i = Len(NodeQuery)
       THEN pc' = AfterNodes /\ i' = 1
       ELSE pc' = "nodes" /\ i' = i + 1
    /\ UNCHANGED <<reference, citation_blacklist, output, citations, adj, edges, parts,
                   communities, stats, colors, values, pos, border_node, latex, written>>

\* lines 102-107: one row of the edge query
AddEdgeRow ==
    /\ pc = "edges"
    /\ LET edge == EdgeQuery[i]
       IN IF EdgeAdmitted(edge)
          THEN /\ nodes' = add_edge_nodes(nodes, edge.t1, edge.t2)
               /\ adj' = add_edge_adj(adj, edge.t1, edge.t2)
               /\ edges' = Append(edges, <<edge.t1, edge.t2>>)
          ELSE UNCHANGED <<nodes, adj, edges>>
    /\ IF i = Len(EdgeQuery)
       THEN pc' = "partition" /\ i' = 1
       ELSE pc' = "edges" /\ i' = i + 1
    /\ UNCHANGED <<reference, citation_blacklist, output, citations, label, parts,
                   communities, stats, colors, values, pos, border_node, latex, written>>

\* line 110
BestPartition ==
    /\ pc = "partition"
    /\ parts' \in best_partition
    /\ pc' = "group"
    /\ UNCHANGED <<reference, citation_blacklist, output, citations, nodes, adj, label,
                   edges, communities, stats, colors, values, pos, border_node, latex,
                   written, i>>

\* lines 113-115
GroupCommunities ==
    /\ pc = "group"
    /\ communities' = Grouped(SortedTitles(DOMAIN parts))
    /\ pc' = "statistics"
    /\ UNCHANGED <<reference, citation_blacklist, output, citations, nodes, adj, label,
                   edges, parts, stats, colors, values, pos, border_node, latex, written, i>>

\* lines 118-121
PrintStatistics ==
    /\ pc = "statistics"
    /\ stats' = [nodes |-> Cardinality(DOMAIN label),
                 edges |-> Len(edges),
                 sizes |-> [c \in DOMAIN communities |-> Len(communities[c])]]
    /\ pc' = "output"
    /\ UNCHANGED <<reference, citation_blacklist, output, citations, nodes, adj, label,
                   edges, parts, communities, colors, values, pos, border_node, latex,
                   written, i>>

\* line 123, args.output is None: nothing more is done
NoOutput ==
    /\ pc = "output"
    /\ output' = FALSE
    /\ pc' = "done"
    /\ UNCHANGED <<reference, citation_blacklist, citations, nodes, adj, label, edges,
                   parts, communities, stats, colors, values, pos, border_node, latex,
                   written, i>>

\* lines 123-130, args.output is given: the palette and the colour of each node
\* (colors[...] raises KeyError on an id the palette lacks)
DefineColors ==
    /\ pc = "output"
    /\ output' = TRUE
    /\ colors' = Colors(Cardinality(DOMAIN communities))
    /\ IF \A k \in DOMAIN nodes : parts[nodes[k]] \in DOMAIN colors'
       THEN /\ values' = [k \in DOMAIN nodes |-> colors'[parts[nodes[k]]]]
            /\ pc' = "layout"
       ELSE /\ values' = values
            /\ pc' = "error"
    /\ UNCHANGED <<reference, citation_blacklist, citations, nodes, adj, label, edges,
                   parts, communities, stats, pos, border_node, latex, written, i>>

\* lines 133-134: the layout returns one position per node, in node order
Layout ==
    /\ pc = "layout"
    /\ pos' = nodes
    /\ pc' = "centrality"
    /\ UNCHANGED <<reference, citation_blacklist, output, citations, nodes, adj, label,
                   edges, parts, communities, stats, colors, values, border_node, latex,
                   written, i>>

\* lines 133-134: on a graph without nodes the layout of some library versions raises
LayoutFails ==
    /\ pc = "layout"
    /\ nodes = <<>>
    /\ pc' = "error"
    /\ UNCHANGED <<reference, citation_blacklist, output, citations, nodes, adj, label,
                   edges, parts, communities, stats, colors, values, pos, border_node,
                   latex, written, i>>

\* lines 137-144
Centrality ==
    /\ pc = "centrality"
    /\ LET centrality == betweenness_centrality
       IN communities' = [c \in DOMAIN communities |-> Ranked(communities[c], centrality)]
    /\ pc' = "styles"
    /\ UNCHANGED <<reference, citation_blacklist, output, citations, nodes, adj, label,
                   edges, parts, stats, colors, values, pos, border_node, latex, written, i>>

\* lines 148-163
EmitStyles ==
    /\ pc = "styles"
    /\ latex' = Preamble \o ColorStyles(colors, 0)
    /\ pc' = "emit nodes"
    /\ UNCHANGED <<reference, citation_blacklist, output, citations, nodes, adj, label,
                   edges, parts, communities, stats, colors, values, pos, border_node,
                   written, i>>

\* lines 165-178
EmitNodes ==
    /\ pc = "emit nodes"
    /\ LET r == NodeLoop(Len(pos))
       IN /\ border_node' = r.border_node
          /\ latex' = latex \o r.latex \o r.border_node
    /\ pc' = "emit edges"
    /\ UNCHANGED <<reference, citation_blacklist, output, citations, nodes, adj, label,
                   edges, parts, communities, stats, colors, values, pos, written, i>>

\* lines 180-190
EmitEdges ==
    /\ pc = "emit edges"
    /\ latex' = latex \o EdgeLoop
    /\ written' = TRUE
    /\ pc' = "done"
    /\ UNCHANGED <<reference, citation_blacklist, output, citations, nodes, adj, label,
                   edges, parts, communities, stats, colors, values, pos, border_node, i>>

Next ==
    \/ ReadCitations
    \/ AddNodeRow
    \/ AddEdgeRow
    \/ BestPartition
    \/ GroupCommunities
    \/ PrintStatistics
    \/ NoOutput
    \/ DefineColors
    \/ Layout
    \/ LayoutFails
    \/ Centrality
    \/ EmitStyles
    \/ EmitNodes
    \/ EmitEdges

Spec == Init /\ [][Next]_vars

----------------------------------------------------------------------------
\* Properties

\* The titles the node loop admits
AdmittedNodes == {t \in Range(NodeQuery) : NodeAdmitted(t)}

EdgesLoaded == pc \notin {"start", "nodes", "edges"}
CommunitiesGrouped == EdgesLoaded /\ pc \notin {"partition", "group"}
StatisticsPrinted == CommunitiesGrouped /\ pc # "statistics"

DeclsOf(kind) == {k \in DOMAIN latex : latex[k].decl = kind}

\* The members of a community: the nodes with that id
Members(c) == {n \in Range(nodes) : parts[n] = c}

\* The places a title occupies in the community lists
PlacesOf(n) ==
    {<<c, k>> \in (DOMAIN communities) \X (1..Len(nodes)) :
        k <= Len(communities[c]) /\ communities[c][k].title = n}

\* C1: once the communities are grouped, their lists partition the node set of the
\* graph: every node is in exactly one list, at one place, no list holds a title that
\* is not a node, and the sizes of the lists add up to the number of nodes.
C1_CommunitiesPartitionNodes ==
    CommunitiesGrouped =>
        /\ \A n \in Range(nodes) : Cardinality(PlacesOf(n)) = 1
        /\ \A c \in DOMAIN communities :
              /\ communities[c] # <<>>
              /\ \A k \in DOMAIN communities[c] : communities[c][k].title \in Range(nodes)
        /\ Sum([c \in DOMAIN communities |-> Len(communities[c])]) = Len(nodes)

C1_Witness ==
    /\ CommunitiesGrouped
    /\ Len(nodes) >= 3
    /\ Cardinality(DOMAIN communities) >= 2
    /\ \E c \in DOMAIN communities : Len(communities[c]) >= 2

\* C2: in a written diagram every community has exactly one node declared with the
\* border style, the centrality of that node is at least that of every member of its
\* community, and every other node is declared once, without the border style.
C2_OneCentralBorderNode ==
    written =>
        LET centrality == betweenness_centrality
            border(c) == {k \in DeclsOf("node") :
                             latex[k].c = c /\ latex[k].style = BorderSuffix}
        IN /\ \A c \in DOMAIN communities :
                /\ Cardinality(border(c)) = 1
                /\ \A k \in border(c) :
                      /\ latex[k].s \in Members(c)
                      /\ \A m \in Members(c) : centrality[latex[k].s] >= centrality[m]
           /\ \A n \in Range(nodes) :
                 Cardinality({k \in DeclsOf("node") : latex[k].s = n}) = 1
           /\ \A k \in DeclsOf("node") :
                 /\ latex[k].c = parts[latex[k].s]
                 /\ latex[k].style \in {BorderSuffix, PlainSuffix}
                 /\ latex[k].style = PlainSuffix <=> k \notin border(latex[k].c)

\* a community whose most central node is not the last of its titles in sorted order
C2_Witness ==
    /\ written
    /\ LET centrality == betweenness_centrality
       IN \E k \in DeclsOf("node") : \E m \in Members(latex[k].c) :
             /\ latex[k].style = BorderSuffix
             /\ centrality[latex[k].s] > centrality[m]
             /\ StrLess(latex[k].s, m)

\* C3: an edge row with an endpoint that is not an admitted node is dropped: it is not
\* in the graph, not in the edge list and not in the diagram.  Every edge kept joins
\* two admitted, labelled nodes, and the graph has no node the node loop did not add.
C3_EdgesJoinAdmittedNodes ==
    pc \notin {"start", "nodes"} =>
        LET admitted == AdmittedNodes
            rows == EdgeQuery
        IN /\ Range(nodes) = admitted
           /\ DOMAIN label = admitted
           /\ \A k \in DOMAIN edges : edges[k][1] \in admitted /\ edges[k][2] \in admitted
           /\ \A e \in adj : e \subseteq admitted
           /\ \A k \in DOMAIN rows :
                 (rows[k].t1 \notin admitted \/ rows[k].t2 \notin admitted)
                 => /\ <<rows[k].t1, rows[k].t2>> \notin Range(edges)
                    /\ {rows[k].t1, rows[k].t2} \notin adj
           /\ \A k \in DeclsOf("path") : latex[k].s \in admitted /\ latex[k].d \in admitted

\* a diagram with an edge, from a database with a row between an admitted node and a
\* title that is not admitted
C3_Witness ==
    /\ written
    /\ edges # <<>>
    /\ LET admitted == AdmittedNodes
           rows == EdgeQuery
       IN \E k \in DOMAIN rows : rows[k].t1 \notin admitted /\ rows[k].t2 \in admitted

\* C4: a title passes the test of the edge loop exactly when it passes the test of the
\* node loop, so every edge row whose two titles are nodes is in the edge list and in
\* the graph.
C4_SymmetricFilter ==
    EdgesLoaded =>
        LET rows == EdgeQuery
        IN \A k \in DOMAIN rows :
              (rows[k].t1 \in Range(nodes) /\ rows[k].t2 \in Range(nodes))
              => /\ <<rows[k].t1, rows[k].t2>> \in Range(edges)
                 /\ {rows[k].t1, rows[k].t2} \in adj

\* C5 as stated: an edge from a node to itself is never in the graph, in the edge list
\* or in the diagram.
C5_NoSelfLoop ==
    /\ \A e \in adj : Cardinality(e) = 2
    /\ \A k \in DOMAIN edges : edges[k][1] # edges[k][2]
    /\ \A k \in DeclsOf("path") : latex[k].s # latex[k].d

\* C5, amended: an edge row whose two titles are the same is filtered like any other
\* row: when its title is a key of citations it becomes a self-loop of the graph and
\* an entry of the edge list, and a written diagram declares a path from the node to
\* itself; otherwise it is dropped.  The script stops with an error only in the layout
\* of a graph without nodes.
C5_SelfLoopKept ==
    /\ EdgesLoaded =>
          LET rows == EdgeQuery
          IN \A k \in DOMAIN rows :
              rows[k].t1 = rows[k].t2 =>
                  LET t == rows[k].t1
                  IN IF t \in DOMAIN citations
                     THEN /\ {t} \in adj
                          /\ <<t, t>> \in Range(edges)
                          /\ written => \E j \in DeclsOf("path") :
                                            latex[j].s = t /\ latex[j].d = t
                     ELSE {t} \notin adj /\ <<t, t>> \notin Range(edges)
    /\ pc = "error" => nodes = <<>>

C5_Witness ==
    /\ written
    /\ \E j \in DeclsOf("path") : latex[j].s = latex[j].d

\* C6 as stated: when no node is admitted, neither statistics nor a diagram is produced.
C6_EmptyGraphAborts ==
    (EdgesLoaded /\ DOMAIN label = {}) => ~StatisticsPrinted /\ ~written

\* C6, amended: when no node is admitted, the graph has no node and no edge, community
\* detection returns the empty partition and the statistics are printed: 0 nodes,
\* 0 edges and no community.  A diagram written for such a graph holds style
\* declarations only.
C6_EmptyGraphReported ==
    (EdgesLoaded /\ DOMAIN label = {}) =>
        /\ nodes = <<>> /\ adj = {} /\ edges = <<>>
        /\ pc # "partition" => parts = <<>>
        /\ CommunitiesGrouped => communities = <<>>
        /\ StatisticsPrinted =>
              stats.nodes = 0 /\ stats.edges = 0 /\ DOMAIN stats.sizes = {}
        /\ written => DeclsOf("tikzstyle") = DOMAIN latex

C6_Witness ==
    /\ EdgesLoaded /\ DOMAIN label = {}
    /\ NodeQuery # <<>>
    /\ written

\* C7: in a written diagram every node declaration precedes every edge declaration,
\* and every node declaration with the border style comes after every node declaration
\* without it.
C7_DeclarationOrder ==
    written =>
        /\ \A j \in DeclsOf("node"), k \in DeclsOf("path") : j < k
        /\ \A j \in DeclsOf("node"), k \in DeclsOf("node") :
              (latex[j].style = PlainSuffix /\ latex[k].style = BorderSuffix) => j < k
        /\ \A j \in DeclsOf("tikzstyle"), k \in DeclsOf("node") \cup DeclsOf("path") : j < k

\* a diagram with an edge where the layout lists a border node before a plain node
C7_Witness ==
    /\ written
    /\ DeclsOf("path") # {}
    /\ \E a \in DOMAIN pos, b \in DOMAIN pos : a < b /\ IsBorder(pos[a]) /\ ~IsBorder(pos[b])

\* The community ids that have style declarations in the diagram
StyledIds == {latex[k].c : k \in {j \in DeclsOf("tikzstyle") : latex[j].c >= 0}}

ThreeNodesNoEdge == written /\ Len(nodes) = 3 /\ adj = {}

\* C8 as stated: the diagram of a graph of 3 nodes and no edge has 3 node declarations,
\* no edge declaration and the styles of at most 3 communities.
C8_AtMostThreeStyles ==
    ThreeNodesNoEdge =>
        /\ Cardinality(DeclsOf("node")) = 3
        /\ Cardinality(DeclsOf("path")) = 0
        /\ Cardinality(StyledIds) <= 3

\* C8, amended: the diagram of a graph of 3 nodes and no edge has 3 node declarations,
\* no edge declaration, and the styles of the 4 palette ids 0..3, two declarations
\* each (plain and border), after the 3 declarations of the preamble.
C8_FourPaletteStyles ==
    ThreeNodesNoEdge =>
        /\ Cardinality(DeclsOf("node")) = 3
        /\ Cardinality(DeclsOf("path")) = 0
        /\ StyledIds = 0..3
        /\ Cardinality(DeclsOf("tikzstyle")) = 3 + 2 * 4
        /\ {parts[n] : n \in Range(nodes)} = 0..2

C8_Witness == ThreeNodesNoEdge /\ reference # <<>>

\* C9 as stated: the edge count of the statistics and the number of edge declarations
\* equal the number of edges of the undirected graph, and no unordered pair is declared
\* twice.
C9_UnorderedEdges ==
    /\ StatisticsPrinted => stats.edges = Cardinality(adj)
    /\ written =>
          /\ Cardinality(DeclsOf("path")) = Cardinality(adj)
          /\ \A j \in DeclsOf("path"), k \in DeclsOf("path") :
                {latex[j].s, latex[j].d} = {latex[k].s, latex[k].d} => j = k

\* C9, amended: the edge list holds ordered pairs (t1, t2) without duplicates, one per
\* edge row kept; the edge count of the statistics and the number of edge declarations
\* equal its length, and the declarations are its pairs in order.  The undirected graph
\* holds the unordered pairs of the list, so it has at most as many edges.
C9_OrderedEdges ==
    /\ \A j \in DOMAIN edges, k \in DOMAIN edges : edges[j] = edges[k] => j = k
    /\ adj = {{edges[k][1], edges[k][2]} : k \in DOMAIN edges}
    /\ EdgesLoaded =>
          LET rows == EdgeQuery
          IN Range(edges) = {<<rows[k].t1, rows[k].t2>> :
                                k \in {j \in DOMAIN rows : EdgeAdmitted(rows[j])}}
    /\ StatisticsPrinted => stats.edges = Len(edges)
    /\ written =>
          /\ Cardinality(DeclsOf("path")) = Len(edges)
          /\ \A k \in DOMAIN edges :
                LET j == Len(latex) - Len(edges) + k
                IN latex[j].decl = "path" /\ latex[j].s = edges[k][1] /\ latex[j].d = edges[k][2]

\* a diagram that declares both (a, b) and (b, a)
C9_Witness ==
    /\ written
    /\ \E j \in DeclsOf("path"), k \in DeclsOf("path") :
          j # k /\ latex[j].s = latex[k].d /\ latex[j].d = latex[k].s /\ latex[j].s # latex[j].d

ColoursDefined == output /\ pc \notin {"start", "nodes", "edges", "partition", "group", "statistics", "output"}

\* The style name a node declaration refers to, as TikZ reads it (without the
\* trailing space)
StyleKey(suffix) == IF suffix = PlainSuffix THEN "vertex" ELSE suffix

====
